---- MODULE Spec2Model ----
(***************************************************************************)
(* Model of the exam analyzer (src/app.py): question extraction, answer    *)
(* key loading, the exam session kept in st.session_state, the scoring     *)
(* loop and the CSV history.                                               *)
(*                                                                         *)
(* Text is a sequence of one-character strings, so that the regular        *)
(* expression, strip() and upper() are computed character by character;    *)
(* Join turns such a sequence into a string value.                         *)
(***************************************************************************)
EXTENDS Integers, Sequences, FiniteSets, TLC

VARIABLES
    session_state,   \* st.session_state: a dict, modelled as a function on its keys
    radio,           \* value of the radio widget q_{idx} rendered by the last run
    db_file,         \* exam_history.csv: whether it exists and its data rows
    score_in,        \* arguments of a stand-alone run of the scoring loop
    score_out,       \* result of that run
    call_in,         \* argument of a stand-alone call of a file handling function
    call_out         \* result of that call

vars == <<session_state, radio, db_file, score_in, score_out, call_in, call_out>>

----------------------------------------------------------------------------
(* Characters and strings *)

Digit == {"0", "1", "2", "3", "7"}
Space == {" ", "\n"}

RECURSIVE Join(_)
Join(s) == IF s = <<>> THEN "" ELSE Head(s) \o Join(Tail(s))

RECURSIVE Concat(_)
Concat(ss) == IF ss = <<>> THEN <<>> ELSE Head(ss) \o Concat(Tail(ss))

RECURSIVE LStrip(_)
LStrip(s) == IF s # <<>> /\ Head(s) \in Space THEN LStrip(Tail(s)) ELSE s

RECURSIVE RStrip(_)
RStrip(s) ==
    IF s # <<>> /\ s[Len(s)] \in Space THEN RStrip(SubSeq(s, 1, Len(s) - 1)) ELSE s

\* str.strip()
Strip(s) == RStrip(LStrip(s))

UpperChar(c) ==
    CASE c = "a" -> "A"
      [] c = "b" -> "B"
      [] c = "c" -> "C"
      [] c = "d" -> "D"
      [] c = "n" -> "N"
      [] OTHER -> c

\* str.upper()
Upper(s) == [i \in 1..Len(s) |-> UpperChar(s[i])]

----------------------------------------------------------------------------
(* extract_questions_from_pdf: pattern (\d+\.\s.*?)(?=\d+\.\s|$), re.DOTALL *)

\* \d+ from position p: the position after the digit run (p itself if none)
RECURSIVE DigitsEnd(_, _)
DigitsEnd(text, p) ==
    IF p <= Len(text) /\ text[p] \in Digit THEN DigitsEnd(text, p + 1) ELSE p

\* \d+\.\s matches at p (the run must be the whole digit run: a "." follows it)
MarkerAt(text, p) ==
    LET e == DigitsEnd(text, p)
    IN  e > p /\ e + 1 <= Len(text) /\ text[e] = "." /\ text[e + 1] \in Space

\* the position after the marker matched at p
MarkerEnd(text, p) == DigitsEnd(text, p) + 2

\* $ without re.MULTILINE: the end of the text, or just before its last newline
AtEnd(text, q) == q = Len(text) + 1 \/ (q = Len(text) /\ text[q] = "\n")

\* (?=\d+\.\s|$)
Lookahead(text, q) == MarkerAt(text, q) \/ AtEnd(text, q)

\* LazyEnd as the greedy .* would give it: the end of the text
LazyEndGreedy(text, q) == Len(text) + 1

\* .*? : the first position from q on where the lookahead succeeds
RECURSIVE LazyEnd(_, _)
LazyEnd(text, q) == IF Lookahead(text, q) THEN q ELSE LazyEnd(text, q + 1)

\* re.findall from position pos: the non-overlapping matches, left to right
RECURSIVE FindAll(_, _)
FindAll(text, pos) ==
    IF pos > Len(text) THEN <<>>
    ELSE IF MarkerAt(text, pos)
         THEN LET e == LazyEnd(text, MarkerEnd(text, pos))
              IN  <<SubSeq(text, pos, e - 1)>> \o FindAll(text, e)
         ELSE FindAll(text, pos + 1)

\* text += page.extract_text() + "\n" for every page
PdfText(pages) == Concat([i \in 1..Len(pages) |-> pages[i] \o <<"\n">>])

Advisory ==
    "Could not auto-detect questions. Please ensure PDF text is selectable and numbered (1. , 2. )."

extract_questions_from_pdf(uploaded_file) ==
    LET matches == FindAll(PdfText(uploaded_file.pages), 1)
    IN  IF matches = <<>>
        THEN <<Advisory>>
        ELSE [i \in 1..Len(matches) |-> Join(Strip(matches[i]))]

----------------------------------------------------------------------------
(* load_answer_key *)

\* a missing cell, read by pandas as NaN; the .str methods leave it as it is
NaNCell == <<"NaN">>

IsNumericCell(c) == c # <<>> /\ \A i \in 1..Len(c) : c[i] \in Digit

\* pandas gives the second column a numeric dtype when it holds no text, and
\* the .str accessor then raises
StrAccessorFails(rows) ==
    /\ rows # <<>>
    /\ \A i \in 1..Len(rows) : rows[i].a = NaNCell \/ IsNumericCell(rows[i].a)

\* df.iloc[:, 1].str.upper().str.strip() for one cell
Normalise(c) == IF c = NaNCell THEN "NaN" ELSE Join(Strip(Upper(c)))

\* dict(zip(keys, values)): a later row replaces an earlier one of the same key
RECURSIVE DictZip(_, _)
DictZip(rows, n) ==
    IF n = 0 THEN <<>>
    ELSE LET d == DictZip(rows, n - 1)
             k == rows[n].q
         IN  [x \in DOMAIN d \cup {k} |-> IF x = k THEN Normalise(rows[n].a) ELSE d[x]]

load_answer_key(uploaded_key) ==
    IF ~uploaded_key.readable \/ StrAccessorFails(uploaded_key.rows)
    THEN <<>>
    ELSE DictZip(uploaded_key.rows, Len(uploaded_key.rows))

----------------------------------------------------------------------------
(* Scoring loop of the results state *)

Unattempted == "Unattempted"
NA == "N/A"

\* dict.get(k, default)
Get(d, k, default) == IF k \in DOMAIN d THEN d[k] ELSE default

\* d[k] = v
Put(d, k, v) == [x \in DOMAIN d \cup {k} |-> IF x = k THEN v ELSE d[x]]

\* Status without the check that the key has an entry
StatusNoKeyCheck(user_ans, correct_ans) ==
    IF user_ans = Unattempted THEN "Unattempted"
    ELSE IF user_ans = correct_ans THEN "Correct"
    ELSE "Wrong"

\* the status the loop body gives one question
Status(user_ans, correct_ans) ==
    IF user_ans = Unattempted THEN "Unattempted"
    ELSE IF user_ans = correct_ans THEN "Correct"
    ELSE IF correct_ans # NA THEN "Wrong"
    ELSE "Key Missing"

\* ScoreLoop counting a question whose key is missing as unattempted
RECURSIVE ScoreLoopNeutral(_, _, _, _)
ScoreLoopNeutral(questions, user_answers, real_key, n) ==
    IF n = 0
    THEN [correct_count |-> 0, wrong_count |-> 0, unattempted_count |-> 0,
          results_data |-> <<>>]
    ELSE LET acc == ScoreLoopNeutral(questions, user_answers, real_key, n - 1)
             user_ans == Get(user_answers, n - 1, Unattempted)
             correct_ans == Get(real_key, n, NA)
             status == Status(user_ans, correct_ans)
         IN  [correct_count |->
                  acc.correct_count + (IF status = "Correct" THEN 1 ELSE 0),
              wrong_count |->
                  acc.wrong_count + (IF status = "Wrong" THEN 1 ELSE 0),
              unattempted_count |->
                  acc.unattempted_count
                      + (IF status \in {"Unattempted", "Key Missing"} THEN 1 ELSE 0),
              results_data |->
                  Append(acc.results_data,
                         [q_num |-> n, user_ans |-> user_ans,
                          correct_ans |-> correct_ans, status |-> status])]

\* the counters and rows after the first n iterations of the loop
RECURSIVE ScoreLoop(_, _, _, _)
ScoreLoop(questions, user_answers, real_key, n) ==
    IF n = 0
    THEN [correct_count |-> 0, wrong_count |-> 0, unattempted_count |-> 0,
          results_data |-> <<>>]
    ELSE LET acc == ScoreLoop(questions, user_answers, real_key, n - 1)
             i == n - 1
             q_num == i + 1
             user_ans == Get(user_answers, i, Unattempted)
             correct_ans == Get(real_key, q_num, NA)
             status == Status(user_ans, correct_ans)
         IN  [correct_count |->
                  acc.correct_count + (IF status = "Correct" THEN 1 ELSE 0),
              wrong_count |->
                  acc.wrong_count + (IF status = "Wrong" THEN 1 ELSE 0),
              unattempted_count |->
                  acc.unattempted_count + (IF user_ans = Unattempted THEN 1 ELSE 0),
              results_data |->
                  Append(acc.results_data,
                         [q_num |-> q_num, user_ans |-> user_ans,
                          correct_ans |-> correct_ans, status |-> status])]

FinalScore(correct_count, wrong_count, positive_marks, negative_marks) ==
    (correct_count * positive_marks) - (wrong_count * negative_marks)

\* what one run of the results state computes
Score(questions, user_answers, real_key, positive_marks, negative_marks) ==
    LET acc == ScoreLoop(questions, user_answers, real_key, Len(questions))
    IN  [correct_count |-> acc.correct_count,
         wrong_count |-> acc.wrong_count,
         unattempted_count |-> acc.unattempted_count,
         results_data |-> acc.results_data,
         final_score |-> FinalScore(acc.correct_count, acc.wrong_count,
                                    positive_marks, negative_marks)]

----------------------------------------------------------------------------
(* History file: save_score and get_history *)

\* shift names whose text pandas reads back as an integer
IntText == {"007", "7"}

IntOfText(s) == CASE s = "007" -> 7 [] s = "7" -> 7

TextOfInt(n) == CASE n = 7 -> "7"

\* pd.read_csv followed by to_csv for the Shift column: a column in which every
\* cell reads as an integer gets an integer dtype and is written back in
\* canonical form; otherwise the cells stay text.  The other columns hold
\* integers and the fixed-format date, which read back as they were written.
RereadShift(rows) ==
    IF rows # <<>> /\ \A i \in 1..Len(rows) : rows[i].Shift \in IntText
    THEN [i \in 1..Len(rows) |->
             [rows[i] EXCEPT !.Shift = TextOfInt(IntOfText(rows[i].Shift))]]
    ELSE rows

\* the file after save_score
save_score(file, shift_name, score, total_q, correct, wrong, date) ==
    LET new_data == [Shift |-> shift_name, Score |-> score, Total_Q |-> total_q,
                     Correct |-> correct, Wrong |-> wrong, Date |-> date]
    IN  [exists |-> TRUE, rows |-> Append(RereadShift(file.rows), new_data)]

get_history(file) == IF file.exists THEN RereadShift(file.rows) ELSE <<>>

----------------------------------------------------------------------------
(* Inputs *)

\* st.file_uploader returns None until a file is uploaded
NoFile == [present |-> FALSE]

\* a PDF without numbered text
PdfUnnumbered == [present |-> TRUE, pages |-> << <<"a", "b">> >>]

\* a PDF of two pages, "1. a" and "2. b "
PdfTwo ==
    [present |-> TRUE,
     pages |-> << <<"1", ".", " ", "a">>, <<"2", ".", " ", "b", " ">> >>]

Pdfs == {NoFile, PdfUnnumbered, PdfTwo}

\* a file pd.read_csv cannot read
KeyUnreadable == [present |-> TRUE, readable |-> FALSE, rows |-> <<>>]

\* rows 1,a and 2, B
KeyFull ==
    [present |-> TRUE, readable |-> TRUE,
     rows |-> << [q |-> 1, a |-> <<"a">>], [q |-> 2, a |-> <<" ", "B">>] >>]

\* rows 1,b then 1,A (with a trailing blank) and 2, n/a
KeyOdd ==
    [present |-> TRUE, readable |-> TRUE,
     rows |-> << [q |-> 1, a |-> <<"b">>], [q |-> 1, a |-> <<"A", " ">>],
                 [q |-> 2, a |-> <<" ", "n", "/", "a">>] >>]

\* a file with the header row only
KeyEmpty == [present |-> TRUE, readable |-> TRUE, rows |-> <<>>]

Keys == {NoFile, KeyUnreadable, KeyEmpty, KeyFull, KeyOdd}

\* the options of the radio widget
Options == <<Unattempted, "A", "B", "C", "D">>

OptionSet == {Options[i] : i \in 1..Len(Options)}

\* the options that name an answer
Letters == OptionSet \ {Unattempted}

\* values of st.number_input for the marks: the defaults
PositiveMarks == {4}
NegativeMarks == {1}

\* values of the shift name text input: the default
ShiftNames == {"Morning Shift - Set A"}

\* shift names typed by a user who numbers the shifts
HistoryShiftNames == {"Morning Shift - Set A", "007"}

\* readings of time.time()
Times == {1, 2}

\* pd.Timestamp.now().strftime('%Y-%m-%d %H:%M')
Dates == {"2024-01-01 10:00"}

\* the most rows the history file is let grow to
MaxHist == 2

----------------------------------------------------------------------------
(* Session state *)

\* Python's None, as the value of start_time before the exam starts
None == 0

\* lines 12-21: every run gives the missing keys their defaults
InitKeys(d) ==
    LET Default(k) ==
            CASE k = "answers" -> <<>>
              [] k = "current_question" -> 0
              [] k = "exam_started" -> FALSE
              [] k = "exam_submitted" -> FALSE
              [] k = "start_time" -> None
        keys == {"answers", "current_question", "exam_started", "exam_submitted",
                 "start_time"}
    IN  [k \in DOMAIN d \cup keys |-> IF k \in DOMAIN d THEN d[k] ELSE Default(k)]

\* Taking without the check of exam_submitted
TakingIgnoresSubmitted(d) == d.exam_started

\* Results as soon as the exam has started
ResultsOnceStarted(d) == d.exam_started

\* which of the three states of the main logic a run renders
Landing(d) == ~d.exam_started /\ ~d.exam_submitted
Taking(d) == ~Landing(d) /\ d.exam_started /\ ~d.exam_submitted
Results(d) == ~Landing(d) /\ ~Taking(d) /\ d.exam_submitted

\* RecordAnswer storing under the first index
RecordAnswerFirst(d, answer) ==
    IF answer # Unattempted
    THEN [d EXCEPT !.answers = [x \in DOMAIN @ \cup {0} |-> IF x = 0 THEN answer ELSE @[x]]]
    ELSE d

\* RecordAnswer storing whatever the radio shows
RecordAnswerAlways(d, answer) ==
    [d EXCEPT !.answers = Put(@, d.current_question, answer)]

\* lines 137-138: the radio's value is stored unless it is "Unattempted"
RecordAnswer(d, answer) ==
    IF answer # Unattempted
    THEN [d EXCEPT !.answers = Put(@, d.current_question, answer)]
    ELSE d

\* StartShown without the check of exam_started
StartShownAlways(d, uploaded_pdf, uploaded_key) ==
    uploaded_pdf.present /\ uploaded_key.present

\* the Start button is shown
StartShown(d, uploaded_pdf, uploaded_key) ==
    uploaded_pdf.present /\ uploaded_key.present /\ ~d.exam_started

\* lines 95-98
StartExam(d, uploaded_pdf, uploaded_key, now) ==
    [k \in DOMAIN d \cup {"questions", "real_answer_key"} |->
        CASE k = "questions" -> extract_questions_from_pdf(uploaded_pdf)
          [] k = "real_answer_key" -> load_answer_key(uploaded_key)
          [] k = "exam_started" -> TRUE
          [] k = "start_time" -> now
          [] OTHER -> d[k]]

\* NextShown off by one
NextShownOffByOne(d) == d.current_question < Len(d.questions)

PreviousShown(d) == d.current_question > 0
NextShown(d) == d.current_question < Len(d.questions) - 1
\* SubmitShown on every question
SubmitShownAlways(d) == TRUE

SubmitShown(d) == ~NextShown(d)

\* TakeAnotherTest clearing the two flags only
TakeAnotherTestFlagsOnly(d) ==
    [d EXCEPT !.exam_started = FALSE, !.exam_submitted = FALSE]

\* TakeAnotherTest clearing exam_started only
TakeAnotherTestStartedOnly(d) == [d EXCEPT !.exam_started = FALSE]

\* TakeAnotherTest keeping the questions and the answer key
TakeAnotherTestKeepsPaper(d) ==
    InitKeys([k \in DOMAIN d \cap {"questions", "real_answer_key"} |-> d[k]])

\* lines 229-230 delete every key; the rerun then sets the defaults again
TakeAnotherTest(d) == InitKeys([k \in DOMAIN d \ DOMAIN d |-> d[k]])

\* the main logic of a run in which no button is clicked: the exam-taking
\* state stores the radio's value, the other two states change nothing
Render(d, answer) == IF Taking(d) THEN RecordAnswer(d, answer) ELSE d

----------------------------------------------------------------------------
(* Stand-alone scoring runs *)

\* the most questions of a stand-alone scoring run
MaxQuestions == 3

\* values an answer key can hold for a question
KeyValues == {"A", "B", "C", NA}

\* letters recorded for a question
ScoreLetters == {"A", "B"}

\* marks given to a stand-alone scoring run
ScoreMarks == {<<4, 1>>, <<1, 0>>, <<0, 4>>}

PartialFns(S, V) == UNION {[D -> V] : D \in SUBSET S}

\* the arguments of a scoring run over n questions
ScoreInputs(n) ==
    {[questions |-> [i \in 1..n |-> "q"], recorded |-> r, key |-> k,
      positive_marks |-> m[1], negative_marks |-> m[2]] :
        r \in PartialFns(0..(n - 1), ScoreLetters),
        k \in PartialFns(1..n, KeyValues),
        m \in ScoreMarks}

\* no stand-alone call of a file handling function
NoCall == [fn |-> "none"]

NoScoreInput ==
    [questions |-> <<>>, recorded |-> <<>>, key |-> <<>>,
     positive_marks |-> 4, negative_marks |-> 1]

----------------------------------------------------------------------------
(* Specification of the session *)

Init ==
    /\ session_state = InitKeys(<<>>)
    /\ radio = Unattempted
    /\ db_file = [exists |-> FALSE, rows |-> <<>>]
    /\ score_in = NoScoreInput
    /\ score_out = [done |-> FALSE]
    /\ call_in = NoCall
    /\ call_out = [done |-> FALSE]

\* "Start Mock Test" with the two uploads of the sidebar, then the rerun
Start(uploaded_pdf, uploaded_key, now) ==
    /\ StartShown(session_state, uploaded_pdf, uploaded_key)
    /\ session_state' =
           Render(InitKeys(StartExam(session_state, uploaded_pdf, uploaded_key, now)),
                  Unattempted)
    /\ radio' = Unattempted
    /\ UNCHANGED <<db_file, score_in, score_out, call_in, call_out>>

\* the user picks an option of the radio; the run stores it
SelectAnswer(answer) ==
    /\ Taking(session_state)
    /\ radio' = answer
    /\ session_state' = Render(session_state, answer)
    /\ UNCHANGED <<db_file, score_in, score_out, call_in, call_out>>

\* "Previous": the run stores the radio's value, moves back and reruns; the
\* radio of the question now shown starts at its default
Previous ==
    /\ Taking(session_state)
    /\ PreviousShown(session_state)
    /\ LET d == RecordAnswer(session_state, radio)
       IN  session_state' =
               Render([d EXCEPT !.current_question = @ - 1], Unattempted)
    /\ radio' = Unattempted
    /\ UNCHANGED <<db_file, score_in, score_out, call_in, call_out>>

\* "Next"
NextQuestion ==
    /\ Taking(session_state)
    /\ NextShown(session_state)
    /\ LET d == RecordAnswer(session_state, radio)
       IN  session_state' =
               Render([d EXCEPT !.current_question = @ + 1], Unattempted)
    /\ radio' = Unattempted
    /\ UNCHANGED <<db_file, score_in, score_out, call_in, call_out>>

\* "Submit Exam", shown in place of "Next" on the last question
SubmitExam ==
    /\ Taking(session_state)
    /\ SubmitShown(session_state)
    /\ LET d == RecordAnswer(session_state, radio)
       IN  session_state' = Render([d EXCEPT !.exam_submitted = TRUE], Unattempted)
    /\ radio' = Unattempted
    /\ UNCHANGED <<db_file, score_in, score_out, call_in, call_out>>

\* "Save Result to History" in the results state
SaveResult(shift_name, positive_marks, negative_marks, date) ==
    /\ Results(session_state)
    /\ Len(db_file.rows) < MaxHist
    /\ LET r == Score(session_state.questions, session_state.answers,
                      session_state.real_answer_key, positive_marks, negative_marks)
       IN  db_file' = save_score(db_file, shift_name, r.final_score,
                                 Len(session_state.questions), r.correct_count,
                                 r.wrong_count, date)
    /\ UNCHANGED <<session_state, radio, score_in, score_out, call_in, call_out>>

\* "Take Another Test" in the results state
Reset ==
    /\ Results(session_state)
    /\ session_state' = Render(TakeAnotherTest(session_state), Unattempted)
    /\ radio' = Unattempted
    /\ UNCHANGED <<db_file, score_in, score_out, call_in, call_out>>

\* a run caused by a sidebar widget, with no button clicked
Rerun ==
    /\ session_state' = Render(InitKeys(session_state), radio)
    /\ UNCHANGED <<radio, db_file, score_in, score_out, call_in, call_out>>

Next ==
    \/ \E uploaded_pdf \in Pdfs, uploaded_key \in Keys, now \in Times :
           Start(uploaded_pdf, uploaded_key, now)
    \/ \E answer \in OptionSet : SelectAnswer(answer)
    \/ Previous
    \/ NextQuestion
    \/ SubmitExam
    \/ \E shift_name \in ShiftNames, positive_marks \in PositiveMarks,
          negative_marks \in NegativeMarks, date \in Dates :
           SaveResult(shift_name, positive_marks, negative_marks, date)
    \/ Reset
    \/ Rerun

Spec == Init /\ [][Next]_vars

----------------------------------------------------------------------------
(* Specification of the scoring loop on its own *)

InitScore ==
    /\ session_state = InitKeys(<<>>)
    /\ radio = Unattempted
    /\ db_file = [exists |-> FALSE, rows |-> <<>>]
    /\ \E n \in 1..MaxQuestions : score_in \in ScoreInputs(n)
    /\ score_out = [done |-> FALSE]
    /\ call_in = NoCall
    /\ call_out = [done |-> FALSE]

ScoreRun ==
    /\ ~score_out.done
    /\ score_out' =
           [done |-> TRUE,
            result |-> Score(score_in.questions, score_in.recorded, score_in.key,
                             score_in.positive_marks, score_in.negative_marks)]
    /\ UNCHANGED <<session_state, radio, db_file, score_in, call_in, call_out>>

NextScore == ScoreRun

SpecScore == InitScore /\ [][NextScore]_vars

----------------------------------------------------------------------------
(* Stand-alone calls of extract_questions_from_pdf *)

\* the most characters of the pages of an extracted PDF, taken together
MaxTextLen == 6

\* characters of page.extract_text(): a digit, the period, a blank, a line
\* break, a letter
PageChars == {"1", ".", " ", "\n", "a"}

\* the most pages of an extracted PDF
MaxPages == 2

\* the PDF of np pages whose text is t: the first page ends after k characters,
\* the second holds the rest, and further pages are blank
ExtractInput(t, k, np) ==
    [present |-> TRUE,
     pages |-> [i \in 1..np |->
                   IF np = 1 THEN t
                   ELSE IF i = 1 THEN SubSeq(t, 1, k)
                   ELSE IF i = 2 THEN SubSeq(t, k + 1, Len(t))
                   ELSE <<>>]]

InitExtract ==
    /\ session_state = InitKeys(<<>>)
    /\ radio = Unattempted
    /\ db_file = [exists |-> FALSE, rows |-> <<>>]
    /\ score_in = NoScoreInput
    /\ score_out = [done |-> FALSE]
    /\ \E n \in 0..MaxTextLen, np \in 0..MaxPages :
       \E t \in [1..n -> PageChars], k \in 0..n :
           call_in = [fn |-> "extract_questions_from_pdf",
                      file |-> ExtractInput(t, k, np)]
    /\ call_out = [done |-> FALSE]

ExtractRun ==
    /\ ~call_out.done
    /\ call_out' = [done |-> TRUE, result |-> extract_questions_from_pdf(call_in.file)]
    /\ UNCHANGED <<session_state, radio, db_file, score_in, score_out, call_in>>

NextExtract == ExtractRun

SpecExtract == InitExtract /\ [][NextExtract]_vars

----------------------------------------------------------------------------
(* Stand-alone calls of load_answer_key *)

\* the most data rows of a loaded answer key
MaxRows == 2

\* question numbers of the first column
KeyNumbers == {1, 2}

\* cells of the second column: a, "B ", " c", ab, an empty cell, 1
KeyCells ==
    {<<"a">>, <<"B", " ">>, <<" ", "c">>, <<"a", "b">>, NaNCell, <<"1">>}

InitKey ==
    /\ session_state = InitKeys(<<>>)
    /\ radio = Unattempted
    /\ db_file = [exists |-> FALSE, rows |-> <<>>]
    /\ score_in = NoScoreInput
    /\ score_out = [done |-> FALSE]
    /\ \/ call_in = [fn |-> "load_answer_key", file |-> KeyUnreadable]
       \/ \E n \in 0..MaxRows :
              \E rows \in [1..n -> [q : KeyNumbers, a : KeyCells]] :
                  call_in = [fn |-> "load_answer_key",
                             file |-> [present |-> TRUE, readable |-> TRUE,
                                       rows |-> rows]]
    /\ call_out = [done |-> FALSE]

KeyRun ==
    /\ ~call_out.done
    /\ call_out' = [done |-> TRUE, result |-> load_answer_key(call_in.file)]
    /\ UNCHANGED <<session_state, radio, db_file, score_in, score_out, call_in>>

NextKey == KeyRun

SpecKey == InitKey /\ [][NextKey]_vars

----------------------------------------------------------------------------
(* Specification of a single attempt: the session without "Take Another Test" *)

NextAttempt ==
    \/ \E uploaded_pdf \in Pdfs, uploaded_key \in Keys, now \in Times :
           Start(uploaded_pdf, uploaded_key, now)
    \/ \E answer \in OptionSet : SelectAnswer(answer)
    \/ Previous
    \/ NextQuestion
    \/ SubmitExam
    \/ \E shift_name \in ShiftNames, positive_marks \in PositiveMarks,
          negative_marks \in NegativeMarks, date \in Dates :
           SaveResult(shift_name, positive_marks, negative_marks, date)
    \/ Rerun

SpecAttempt == Init /\ [][NextAttempt]_vars

----------------------------------------------------------------------------
(* Specification of the session with numbered shift names *)

NextHistory ==
    \/ \E uploaded_pdf \in Pdfs, uploaded_key \in Keys, now \in Times :
           Start(uploaded_pdf, uploaded_key, now)
    \/ \E answer \in OptionSet : SelectAnswer(answer)
    \/ Previous
    \/ NextQuestion
    \/ SubmitExam
    \/ \E shift_name \in HistoryShiftNames, positive_marks \in PositiveMarks,
          negative_marks \in NegativeMarks, date \in Dates :
           SaveResult(shift_name, positive_marks, negative_marks, date)
    \/ Reset
    \/ Rerun

SpecHistory == Init /\ [][NextHistory]_vars

----------------------------------------------------------------------------
(* Properties *)

\* the phases of the session, read off the two flags
NotStarted == ~session_state.exam_started /\ ~session_state.exam_submitted
InProgress == session_state.exam_started /\ ~session_state.exam_submitted
Submitted == session_state.exam_submitted

\* a step that takes the session from the results state back to the landing state
ResetStep == Submitted /\ ~session_state'.exam_submitted

\* C1: while the exam is in progress, whatever was navigated and recorded,
\* 0 <= current_question < len(questions).
C1_IndexInRange ==
    InProgress =>
        /\ 0 <= session_state.current_question
        /\ session_state.current_question < Len(session_state.questions)

\* the exam is in progress on the first question again, after the second
\* question was visited and answered
C1_Witness ==
    /\ InProgress
    /\ session_state.current_question = 0
    /\ 1 \in DOMAIN session_state.answers

\* C2: recording "Unattempted" for a question answered with a letter removes
\* its entry from the answers, and the question is then scored Unattempted.
C2_UnattemptedRemovesEntry ==
    [][(/\ InProgress
        /\ radio \in Letters
        /\ radio' = Unattempted
        /\ session_state'.current_question = session_state.current_question
        /\ ~session_state'.exam_submitted)
       => LET idx == session_state.current_question
              r == Score(session_state'.questions, session_state'.answers,
                         session_state'.real_answer_key, 4, 1)
          IN  /\ idx \notin DOMAIN session_state'.answers
              /\ r.results_data[idx + 1].status = "Unattempted"]_vars

\* C3: right after every start, the first one and those that follow a reset,
\* current_question = 0, no answer is recorded and start_time is set.
C3_StartIsFresh ==
    [][(~session_state.exam_started /\ session_state'.exam_started)
       => /\ session_state'.current_question = 0
          /\ session_state'.answers = <<>>
          /\ session_state'.start_time # None]_vars

\* a second attempt has just started: the history holds an earlier attempt
C3_Witness ==
    /\ InProgress
    /\ db_file.rows # <<>>
    /\ session_state.current_question = 0
    /\ session_state.answers = <<>>
    /\ session_state.start_time \in Times

\* C4: in every reachable state exam_submitted implies exam_started, and the
\* questions, the answer key and the start time are set.
C4_SubmittedImpliesStarted ==
    Submitted =>
        /\ session_state.exam_started
        /\ "questions" \in DOMAIN session_state
        /\ "real_answer_key" \in DOMAIN session_state
        /\ session_state.start_time # None

\* an exam has been submitted
C4_Witness ==
    /\ Submitted
    /\ session_state.exam_started
    /\ session_state.answers # <<>>

\* C5: the answers change only while the exam is in progress, and then only
\* in the entry of the current question; in the other phases only a reset
\* changes them.
C5_AnswersFrame ==
    [][session_state'.answers # session_state.answers
       => \/ ResetStep
          \/ /\ InProgress
             /\ \A j \in (DOMAIN session_state.answers
                            \cup DOMAIN session_state'.answers)
                         \ {session_state.current_question} :
                    /\ j \in DOMAIN session_state.answers
                    /\ j \in DOMAIN session_state'.answers
                    /\ session_state'.answers[j] = session_state.answers[j]]_vars

\* the second question is being answered while the first holds an answer
C5_Witness ==
    /\ InProgress
    /\ session_state.current_question = 1
    /\ radio \in Letters
    /\ DOMAIN session_state.answers = {0, 1}

\* the three counts of the results state
Counts(d) ==
    LET r == Score(d.questions, d.answers, d.real_answer_key, 4, 1)
    IN  <<r.correct_count, r.wrong_count, r.unattempted_count>>

\* C6: once submitted, every step but a reset leaves the phase, the answers,
\* the current question, the questions and the answer key as they are, and
\* with them the correct, wrong and unattempted counts.
C6_SubmittedIsStable ==
    [][Submitted
       => \/ ResetStep
          \/ /\ session_state'.exam_submitted
             /\ session_state'.answers = session_state.answers
             /\ session_state'.current_question = session_state.current_question
             /\ session_state'.questions = session_state.questions
             /\ session_state'.real_answer_key = session_state.real_answer_key
             /\ Counts(session_state') = Counts(session_state)]_vars

\* the result of a submitted exam with answers has been saved twice
C6_Witness ==
    /\ Submitted
    /\ session_state.answers # <<>>
    /\ Len(db_file.rows) = 2
    /\ db_file.rows[1].Total_Q = Len(session_state.questions)

\* C7: the state after a reset is the initial session state: not started, no
\* answers, current_question 0, no start time, no questions and no answer key.
C7_ResetRestoresInitial ==
    [][ResetStep
       => /\ ~session_state'.exam_started
          /\ ~session_state'.exam_submitted
          /\ session_state'.answers = <<>>
          /\ session_state'.current_question = 0
          /\ session_state'.start_time = None
          /\ "questions" \notin DOMAIN session_state'
          /\ "real_answer_key" \notin DOMAIN session_state'
          /\ session_state' = InitKeys(<<>>)]_vars

\* the session is back at the landing state after a saved attempt
C7_Witness ==
    /\ NotStarted
    /\ db_file.rows # <<>>
    /\ "questions" \notin DOMAIN session_state

C9_StartOnlyWhenNotStarted ==
    /\ [][(/\ session_state'.start_time # session_state.start_time
           /\ session_state'.start_time # None) => NotStarted]_vars
    /\ [][(~NotStarted /\ NotStarted') => ResetStep]_vars
    /\ [][((InProgress \/ Submitted) /\ ~ResetStep)
          => /\ session_state'.questions = session_state.questions
             /\ session_state'.real_answer_key = session_state.real_answer_key]_vars

\* a second attempt, on another paper than the one saved in the history
C9_Witness ==
    /\ InProgress
    /\ db_file.rows # <<>>
    /\ db_file.rows[1].Total_Q # Len(session_state.questions)

\* the number of the questions of the scoring run that have status st
NumWithStatus(ClassOf(_), st) ==
    Cardinality({i \in 0..(Len(score_in.questions) - 1) : ClassOf(i) = st})

\* the rows and the final score of the scoring run follow the classification
ScoredBy(ClassOf(_)) ==
    LET r == score_out.result
        n == Len(score_in.questions)
    IN  /\ Len(r.results_data) = n
        /\ \A i \in 0..(n - 1) :
               /\ r.results_data[i + 1].q_num = i + 1
               /\ r.results_data[i + 1].status = ClassOf(i)
        /\ r.correct_count = NumWithStatus(ClassOf, "Correct")
        /\ r.wrong_count = NumWithStatus(ClassOf, "Wrong")
        /\ r.final_score =
               NumWithStatus(ClassOf, "Correct") * score_in.positive_marks
                   - NumWithStatus(ClassOf, "Wrong") * score_in.negative_marks

\* the classification as C10 states it
ClaimedClass(i) ==
    IF i \notin DOMAIN score_in.recorded THEN "Unattempted"
    ELSE IF i + 1 \in DOMAIN score_in.key /\ score_in.key[i + 1] = score_in.recorded[i]
         THEN "Correct"
    ELSE IF i + 1 \in DOMAIN score_in.key THEN "Wrong"
    ELSE "Key Missing"

\* the classification with a key entry that is the text "N/A" counted as no entry
AmendedClass(i) ==
    IF i \notin DOMAIN score_in.recorded THEN "Unattempted"
    ELSE IF i + 1 \in DOMAIN score_in.key /\ score_in.key[i + 1] = score_in.recorded[i]
         THEN "Correct"
    ELSE IF i + 1 \in DOMAIN score_in.key /\ score_in.key[i + 1] # "N/A" THEN "Wrong"
    ELSE "Key Missing"

\* the scenario of C10: three questions, A and B recorded, key A, C, B, marks 4/1
ExampleInput ==
    [questions |-> <<"q", "q", "q">>, recorded |-> (0 :> "A" @@ 1 :> "B"),
     key |-> <<"A", "C", "B">>, positive_marks |-> 4, negative_marks |-> 1]

C11_Reconciliation ==
    score_out.done =>
        LET r == score_out.result
            n == Len(score_in.questions)
            key_missing ==
                Cardinality({i \in 1..Len(r.results_data) :
                                 r.results_data[i].status = "Key Missing"})
        IN  /\ Len(r.results_data) = n
            /\ \A i \in 1..n : r.results_data[i].q_num = i
            /\ r.correct_count + r.wrong_count + r.unattempted_count + key_missing = n

\* a run with a correct, an unattempted and a Key Missing question
C11_Witness ==
    /\ score_out.done
    /\ score_out.result.correct_count = 1
    /\ score_out.result.unattempted_count = 1
    /\ \E i \in 1..Len(score_out.result.results_data) :
           score_out.result.results_data[i].status = "Key Missing"

\* C12: with an empty answer key (a key file that could not be read included)
\* the exam is started, taken and submitted all the same, and whatever was
\* recorded, every answered question is Key Missing, every other one
\* Unattempted, no question is correct or wrong and the final score is 0.
C12_EmptyKey ==
    (Submitted /\ session_state.real_answer_key = <<>>) =>
        \A m \in ScoreMarks :
            LET r == Score(session_state.questions, session_state.answers,
                           session_state.real_answer_key, m[1], m[2])
            IN  /\ \A i \in 0..(Len(session_state.questions) - 1) :
                       r.results_data[i + 1].status =
                           IF i \in DOMAIN session_state.answers
                           THEN "Key Missing" ELSE "Unattempted"
                /\ r.correct_count = 0
                /\ r.wrong_count = 0
                /\ r.final_score = 0

\* an exam with an empty key was submitted with the first of its two questions
\* answered
C12_Witness ==
    /\ Submitted
    /\ session_state.real_answer_key = <<>>
    /\ Len(session_state.questions) = 2
    /\ DOMAIN session_state.answers = {0}

\* C13: a submitted attempt adds at most one record to the history.  In a
\* single attempt that starts without a history file, the file never holds
\* more than one record.
C13_OneRecordPerSubmission == Len(db_file.rows) <= 1

\* C14: the history is append-only: every step leaves the stored records as
\* they are and in their order, and adds at most one record, at the end.
C14_AppendOnly ==
    [][\/ db_file'.rows = db_file.rows
       \/ /\ Len(db_file'.rows) = Len(db_file.rows) + 1
          /\ SubSeq(db_file'.rows, 1, Len(db_file.rows)) = db_file.rows]_vars

\* C15: after a record is appended, get_history returns the records it
\* returned before, in their order, followed by the new record with the shift
\* name, score, total, correct and wrong that were passed to save_score.
C15_HistoryRoundTrip ==
    [][db_file' # db_file
       => \E shift_name \in HistoryShiftNames, positive_marks \in PositiveMarks,
             negative_marks \in NegativeMarks, date \in Dates :
              LET r == Score(session_state.questions, session_state.answers,
                             session_state.real_answer_key,
                             positive_marks, negative_marks)
              IN  get_history(db_file') =
                      Append(get_history(db_file),
                             [Shift |-> shift_name, Score |-> r.final_score,
                              Total_Q |-> Len(session_state.questions),
                              Correct |-> r.correct_count, Wrong |-> r.wrong_count,
                              Date |-> date])]_vars

\* C16: when extraction found no question boundary, the one-element advisory
\* result is not a question: the session does not present it for answering,
\* no answer is recorded against it, and scoring produces no row for it.
C16_AdvisoryNotAQuestion ==
    ("questions" \in DOMAIN session_state /\ session_state.questions = <<Advisory>>)
        => /\ ~InProgress
           /\ session_state.answers = <<>>
           /\ Submitted =>
                  Score(session_state.questions, session_state.answers,
                        session_state.real_answer_key, 4, 1).results_data = <<>>

\* C19: submit is enabled only on the last question: whenever Submit can be
\* taken, and in every step from in-progress to submitted, current_question =
\* len(questions) - 1; an exam starts on question 0 and a step raises
\* current_question by at most one, so N - 1 Next steps come before a submit.
C19_SubmitOnlyOnLast ==
    /\ [](ENABLED SubmitExam =>
              /\ InProgress
              /\ session_state.current_question = Len(session_state.questions) - 1)
    /\ [][(InProgress /\ session_state'.exam_submitted) =>
              session_state.current_question = Len(session_state.questions) - 1]_vars
    /\ [][(NotStarted /\ session_state'.exam_started) =>
              session_state'.current_question = 0]_vars
    /\ [][(InProgress /\ session_state'.exam_started) =>
              session_state'.current_question <= session_state.current_question + 1]_vars

\* a two-question exam was submitted from its second question
C19_Witness ==
    /\ Submitted
    /\ Len(session_state.questions) = 2
    /\ session_state.current_question = 1

\* C20: every key of answers is an index of a question of the current attempt
\* and every stored value is one of A, B, C, D, never "Unattempted".
C20_AnswersWellFormed ==
    \A k \in DOMAIN session_state.answers :
        /\ "questions" \in DOMAIN session_state
        /\ k \in 0..(Len(session_state.questions) - 1)
        /\ session_state.answers[k] \in {"A", "B", "C", "D"}

\* the second question holds an answer while the radio shows "Unattempted"
C20_Witness ==
    /\ InProgress
    /\ session_state.current_question = 1
    /\ radio = Unattempted
    /\ 1 \in DOMAIN session_state.answers

\* the positions of text where a numbered marker starts: a run of digits, from
\* its first digit, followed by a period and a whitespace character
MarkerStarts(text) ==
    {p \in 1..Len(text) :
        /\ text[p] \in {"0", "1", "2", "3", "4", "5", "6", "7", "8", "9"}
        /\ (p = 1 \/ text[p - 1] \notin {"0", "1", "2", "3", "4", "5", "6", "7", "8", "9"})
        /\ \E e \in (p + 1)..(Len(text) - 1) :
               /\ \A i \in p..(e - 1) :
                      text[i] \in {"0", "1", "2", "3", "4", "5", "6", "7", "8", "9"}
               /\ text[e] = "."
               /\ text[e + 1] \in {" ", "\n"}}

\* the k-th smallest element of a set of positions
NthOf(S, k) == CHOOSE p \in S : Cardinality({q \in S : q < p}) = k - 1

\* seg without the whitespace before its first and after its last other character
Trimmed(seg) ==
    LET ink == {i \in 1..Len(seg) : seg[i] \notin {" ", "\n"}}
    IN  IF ink = {} THEN <<>>
        ELSE SubSeq(seg, CHOOSE i \in ink : \A j \in ink : i <= j,
                         CHOOSE i \in ink : \A j \in ink : i >= j)

\* C17: extraction never returns an empty list: for a text with N >= 1
\* numbered markers it returns N entries in text order, the k-th being the
\* text from the k-th marker to just before the next marker (or the end),
\* trimmed; for a text without marker it returns the advisory entry alone.
C17_Extraction ==
    call_out.done =>
        LET text == PdfText(call_in.file.pages)
            S == MarkerStarts(text)
            N == Cardinality(S)
            r == call_out.result
            last(k) == IF k < N THEN NthOf(S, k + 1) - 1 ELSE Len(text)
        IN  /\ r # <<>>
            /\ IF N = 0 THEN r = <<Advisory>>
               ELSE /\ Len(r) = N
                    /\ \A k \in 1..N :
                           r[k] = Join(Trimmed(SubSeq(text, NthOf(S, k), last(k))))

\* a PDF of two pages gave two questions, the second one of more than its marker
C17_Witness ==
    /\ call_out.done
    /\ Len(call_in.file.pages) = 2
    /\ Len(call_out.result) = 2
    /\ call_out.result[1] = "1."
    /\ call_out.result[2] = "1. a"

\* the upper-case form of a letter of the key cells
Capital(c) ==
    IF c \in {"a", "b", "c", "d"}
    THEN (("a" :> "A") @@ ("b" :> "B") @@ ("c" :> "C") @@ ("d" :> "D"))[c]
    ELSE c

\* C18: for every sequence of answer-key rows, the parsed key maps each
\* question number of the rows to a single upper-case letter, which is the
\* trimmed, upper-cased cell of the last row with that number.
C18_SingleLetterLastWins ==
    call_out.done =>
        LET rows == call_in.file.rows
            r == call_out.result
        IN  \A i \in 1..Len(rows) :
                /\ rows[i].q \in DOMAIN r
                /\ r[rows[i].q] \in {"A", "B", "C", "D"}
                /\ (\A j \in (i + 1)..Len(rows) : rows[j].q # rows[i].q) =>
                       LET cell == Trimmed(rows[i].a)
                       IN  r[rows[i].q] = Join([k \in 1..Len(cell) |-> Capital(cell[k])])

====
